---- MODULE Spec2Model ----
(***************************************************************************)
(* A model of the til repository: the authoring command (main, two         *)
(* versions of it), the Atom feed composer (Feed), and the page composers  *)
(* (Index, Page, Document, License) expanded by a depth-first render pass  *)
(* with a scoped Path context.                                             *)
(***************************************************************************)
EXTENDS Naturals, Integers, Sequences, FiniteSets, TLC

VARIABLES
    \* ---- authoring command (main) ----
    version,      \* "v1": main of lines 12-41, "v2": main of lines 106-166
    pc,           \* position of main
    titleGiven,   \* argv carries a title
    dirty,        \* git status --porcelain prints something
    spinner,      \* the spinner interval of spin is set
    isExisting,   \* the value of isExisting / fileExists
    entryFile,    \* the entry path in the work tree: "absent", "old", "template", "saved"
    tmpFile,      \* the mktemp file: "none", "empty", "template", "deleted"
    pending,      \* an exception waiting for the finally block to end
    git,          \* [staged, committed, pushed]
    ops,          \* the side effects main has run, in order
    repo0,        \* the repository (work tree entry and git) when main started
    \* ---- feed ----
    entries,      \* the entries array handed to Feed
    feedOut,      \* the call of Feed: the entries it was given and what it returned
    \* ---- render pass ----
    rootKind,     \* which composer built the tree being rendered
    input,        \* the props the composer was given
    work,         \* the traversal's stack of nodes still to expand
    bindings,     \* the values bound to Path, innermost last
    reads,        \* the reads of Path made so far in this pass
    out,          \* the markup emitted so far, as tokens
    rstatus       \* "idle", "running", "done", "failed"

mainVars == <<version, pc, titleGiven, dirty, spinner, isExisting, entryFile, tmpFile, pending, git, ops, repo0>>
feedVars == <<entries, feedOut>>
renderVars == <<rootKind, input, work, bindings, reads, out, rstatus>>
vars == <<mainVars, feedVars, renderVars>>

(***************************************************************************)
(* Sequence helpers.                                                       *)
(***************************************************************************)
Last(s) == s[Len(s)]

Front(s) == SubSeq(s, 1, Len(s) - 1)

Range(s) == {s[i] : i \in 1..Len(s)}

(***************************************************************************)
(* The authoring command.                                                  *)
(***************************************************************************)
Repo ==
    [entryFile |-> entryFile, git |-> git]

MainInitOf(v) ==
    /\ version = v
    /\ pc = "status"
    /\ titleGiven \in BOOLEAN
    /\ dirty \in BOOLEAN
    /\ spinner = (v = "v2")
    /\ isExisting = FALSE
    /\ entryFile \in {"absent", "old"}
    /\ tmpFile = "none"
    /\ pending = FALSE
    /\ git = [staged |-> FALSE, committed |-> FALSE, pushed |-> FALSE]
    /\ ops = <<>>
    /\ repo0 = [entryFile |-> entryFile, git |-> git]

MainInit ==
    \E v \in {"v1", "v2"} : MainInitOf(v)

MainIdle ==
    /\ version = "none"
    /\ pc = "idle"
    /\ titleGiven = FALSE
    /\ dirty = FALSE
    /\ spinner = FALSE
    /\ isExisting = FALSE
    /\ entryFile = "absent"
    /\ tmpFile = "none"
    /\ pending = FALSE
    /\ git = [staged |-> FALSE, committed |-> FALSE, pushed |-> FALSE]
    /\ ops = <<>>
    /\ repo0 = [entryFile |-> entryFile, git |-> git]

\* main rejects (v2: the finally of spin clears the spinner on the way out).
Reject(op) ==
    /\ pc' = "rejected"
    /\ ops' = Append(ops, op)
    /\ spinner' = FALSE

\* git status --porcelain, lines 14-17 and 111-114.
GitStatus ==
    /\ pc = "status"
    /\ \E execOk \in BOOLEAN :
        IF ~execOk THEN Reject("status")
        ELSE IF dirty
            THEN /\ pc' = IF version = "v1" THEN "exit1" ELSE "rejected"
                 /\ ops' = Append(ops, "status")
                 /\ spinner' = FALSE
            ELSE /\ pc' = "sync"
                 /\ ops' = Append(ops, "status")
                 /\ UNCHANGED spinner
    /\ UNCHANGED <<version, titleGiven, dirty, isExisting, entryFile, tmpFile, pending, git, repo0>>
    /\ UNCHANGED <<feedVars, renderVars>>

\* A plausible slip: the failure of the sync step caught and dropped in v2
\* as it is in v1.
GitSyncFailureDropped ==
    /\ pc = "sync"
    /\ \E syncOk \in BOOLEAN :
        /\ pc' = "filename"
        /\ ops' = Append(ops, IF version = "v1" THEN (IF syncOk THEN "pull" ELSE "pull failed")
                              ELSE (IF syncOk THEN "fetch rebase" ELSE "fetch rebase failed"))
        /\ spinner' = FALSE
    /\ UNCHANGED <<version, titleGiven, dirty, isExisting, entryFile, tmpFile, pending, git, repo0>>
    /\ UNCHANGED <<feedVars, renderVars>>

\* v1: git pull, its failure logged and dropped (line 18).
\* v2: git fetch && git rebase -q, inside spin (lines 115-120).
GitSync ==
    /\ pc = "sync"
    /\ \E syncOk \in BOOLEAN :
        IF version = "v1"
        THEN /\ pc' = "filename"
             /\ ops' = Append(ops, IF syncOk THEN "pull" ELSE "pull failed")
             /\ UNCHANGED spinner
        ELSE IF syncOk
            THEN /\ pc' = "filename"
                 /\ ops' = Append(ops, "fetch rebase")
                 /\ spinner' = FALSE
            ELSE Reject("fetch rebase failed")
    /\ UNCHANGED <<version, titleGiven, dirty, isExisting, entryFile, tmpFile, pending, git, repo0>>
    /\ UNCHANGED <<feedVars, renderVars>>

\* The filename: from the title, or from the fzf picker (lines 20-25, 123-130).
PickFilename ==
    /\ pc = "filename"
    /\ IF titleGiven
       THEN /\ pc' = "exists"
            /\ UNCHANGED ops
       ELSE \E picked \in BOOLEAN :
            \* fzf lists the entries that exist; it exits non-zero with no pick
            /\ pc' = IF picked /\ entryFile # "absent" THEN "exists" ELSE "rejected"
            /\ ops' = Append(ops, "fzf")
    /\ UNCHANGED <<version, titleGiven, dirty, spinner, isExisting, entryFile, tmpFile, pending, git, repo0>>
    /\ UNCHANGED <<feedVars, renderVars>>

\* exists(filepath): true, false on ENOENT, any other stat error is thrown
\* (lines 27, 133, 218-221).
CheckExisting ==
    /\ pc = "exists"
    /\ \E statOk \in BOOLEAN :
        IF ~statOk
        THEN /\ pc' = "rejected"
             /\ UNCHANGED isExisting
        ELSE /\ isExisting' = (entryFile # "absent")
             /\ pc' = IF isExisting' THEN "edit"
                      ELSE IF version = "v1" THEN "writeEntry" ELSE "mktemp"
    /\ UNCHANGED <<version, titleGiven, dirty, spinner, entryFile, tmpFile, pending, git, ops, repo0>>
    /\ UNCHANGED <<feedVars, renderVars>>

\* What an editor session can leave at the entry path: the file as it was, or saved.
EditorResult(before) ==
    {before, "saved"}

\* edit of an existing entry (lines 29, 135): rejects on a non-zero exit code
\* or a spawn error.
EditExisting ==
    /\ pc = "edit"
    /\ \E exitOk \in BOOLEAN, after \in EditorResult(entryFile) :
        /\ entryFile' = after
        /\ ops' = Append(ops, IF exitOk THEN "editor" ELSE "editor nonzero")
        /\ pc' = IF exitOk THEN "publish" ELSE "rejected"
    /\ UNCHANGED <<version, titleGiven, dirty, spinner, isExisting, tmpFile, pending, git, repo0>>
    /\ UNCHANGED <<feedVars, renderVars>>

\* v1 only: the template is written to the entry path itself (line 36).
WriteEntryV1 ==
    /\ pc = "writeEntry"
    /\ \E writeOk \in BOOLEAN :
        IF writeOk
        THEN /\ entryFile' = "template"
             /\ ops' = Append(ops, "write entry")
             /\ pc' = "editV1"
        ELSE /\ pc' = "rejected"
             /\ ops' = Append(ops, "write entry failed")
             /\ UNCHANGED entryFile
    /\ UNCHANGED <<version, titleGiven, dirty, spinner, isExisting, tmpFile, pending, git, repo0>>
    /\ UNCHANGED <<feedVars, renderVars>>

\* v1 only: the editor on the new entry (line 37).
EditNewV1 ==
    /\ pc = "editV1"
    /\ \E exitOk \in BOOLEAN, after \in EditorResult(entryFile) :
        /\ entryFile' = after
        /\ ops' = Append(ops, IF exitOk THEN "editor" ELSE "editor nonzero")
        /\ pc' = IF exitOk THEN "publish" ELSE "rejected"
    /\ UNCHANGED <<version, titleGiven, dirty, spinner, isExisting, tmpFile, pending, git, repo0>>
    /\ UNCHANGED <<feedVars, renderVars>>

\* v2: tmpFile = (await exec('mktemp')).trim() (line 143), before the try.
Mktemp ==
    /\ pc = "mktemp"
    /\ \E execOk \in BOOLEAN :
        IF execOk
        THEN /\ tmpFile' = "empty"
             /\ ops' = Append(ops, "mktemp")
             /\ pc' = "writeTmp"
        ELSE /\ pc' = "rejected"
             /\ ops' = Append(ops, "mktemp failed")
             /\ UNCHANGED tmpFile
    /\ UNCHANGED <<version, titleGiven, dirty, spinner, isExisting, entryFile, pending, git, repo0>>
    /\ UNCHANGED <<feedVars, renderVars>>

\* v2: fs.writeFile(tmpFile, entry) inside the try (line 145).
WriteTmp ==
    /\ pc = "writeTmp"
    /\ \E writeOk \in BOOLEAN :
        IF writeOk
        THEN /\ tmpFile' = "template"
             /\ ops' = Append(ops, "write tmp")
             /\ pc' = "editNew"
             /\ UNCHANGED pending
        ELSE /\ pending' = TRUE
             /\ ops' = Append(ops, "write tmp failed")
             /\ pc' = "unlink"
             /\ UNCHANGED tmpFile
    /\ UNCHANGED <<version, titleGiven, dirty, spinner, isExisting, entryFile, git, repo0>>
    /\ UNCHANGED <<feedVars, renderVars>>

\* A plausible slip: the edit outside the try, so that a failed editor leaves
\* main without passing the finally block.
EditNewOutsideTry ==
    /\ pc = "editNew"
    /\ \E exitOk \in BOOLEAN, after \in EditorResult(entryFile) :
        /\ entryFile' = after
        /\ ops' = Append(ops, IF exitOk THEN "editor" ELSE "editor nonzero")
        /\ pending' = FALSE
        /\ pc' = IF exitOk THEN "unlink" ELSE "rejected"
    /\ UNCHANGED <<version, titleGiven, dirty, spinner, isExisting, tmpFile, git, repo0>>
    /\ UNCHANGED <<feedVars, renderVars>>

\* v2: the editor reads the temp file into the buffer of the entry path
\* (line 146); the user may save the entry or quit without saving, and the
\* editor may exit non-zero either way.
EditNew ==
    /\ pc = "editNew"
    /\ \E exitOk \in BOOLEAN, after \in EditorResult(entryFile) :
        /\ entryFile' = after
        /\ ops' = Append(ops, IF exitOk THEN "editor" ELSE "editor nonzero")
        /\ pending' = ~exitOk
        /\ pc' = "unlink"
    /\ UNCHANGED <<version, titleGiven, dirty, spinner, isExisting, tmpFile, git, repo0>>
    /\ UNCHANGED <<feedVars, renderVars>>

\* v2: finally { await fs.unlink(tmpFile) } (lines 147-149); a pending
\* exception, or the one unlink throws, leaves main.
UnlinkTmp ==
    /\ pc = "unlink"
    /\ \E unlinkOk \in BOOLEAN :
        /\ tmpFile' = IF unlinkOk THEN "deleted" ELSE tmpFile
        /\ ops' = Append(ops, IF unlinkOk THEN "unlink" ELSE "unlink failed")
        /\ pc' = IF pending \/ ~unlinkOk THEN "rejected" ELSE "recheck"
    /\ pending' = FALSE
    /\ UNCHANGED <<version, titleGiven, dirty, spinner, isExisting, entryFile, git, repo0>>
    /\ UNCHANGED <<feedVars, renderVars>>

\* A plausible slip: the check after the edit session left out.
RecheckSkipped ==
    /\ pc = "recheck"
    /\ pc' = "publish"
    /\ UNCHANGED <<version, titleGiven, dirty, spinner, isExisting, entryFile, tmpFile, pending, git, ops, repo0>>
    /\ UNCHANGED <<feedVars, renderVars>>

\* v2: if (!await exists(filepath)) throw "aborted" (lines 151-154).
Recheck ==
    /\ pc = "recheck"
    /\ \E statOk \in BOOLEAN :
        pc' = IF statOk /\ entryFile # "absent" THEN "publish" ELSE "rejected"
    /\ UNCHANGED <<version, titleGiven, dirty, spinner, isExisting, entryFile, tmpFile, pending, git, ops, repo0>>
    /\ UNCHANGED <<feedVars, renderVars>>

\* The steps of "git add && git commit && git push" that ran, each one only
\* after the one before succeeded.
GitChain(addOk, commitOk, pushOk) ==
    <<"git add">> \o (IF addOk THEN <<"git commit">> ELSE <<>>)
                  \o (IF addOk /\ commitOk THEN <<"git push">> ELSE <<>>)

\* Update the repo (lines 40, 157-165): the chain ends in "|| echo", so a
\* failed step does not fail main; v2 runs it in spin with a timeout.
Publish ==
    /\ pc = "publish"
    /\ \E addOk \in BOOLEAN, commitOk \in BOOLEAN, pushOk \in BOOLEAN, inTime \in BOOLEAN :
        /\ ops' = ops \o GitChain(addOk, commitOk, pushOk)
        /\ git' = [staged |-> addOk,
                   committed |-> addOk /\ commitOk,
                   pushed |-> addOk /\ commitOk /\ pushOk]
        /\ pc' = IF inTime \/ version = "v1" THEN "resolved" ELSE "rejected"
    /\ spinner' = FALSE
    /\ UNCHANGED <<version, titleGiven, dirty, isExisting, entryFile, tmpFile, pending, repo0>>
    /\ UNCHANGED <<feedVars, renderVars>>

MainNext ==
    \/ GitStatus
    \/ GitSync
    \/ PickFilename
    \/ CheckExisting
    \/ EditExisting
    \/ WriteEntryV1
    \/ EditNewV1
    \/ Mktemp
    \/ WriteTmp
    \/ EditNew
    \/ UnlinkTmp
    \/ Recheck
    \/ Publish

(***************************************************************************)
(* Nodes, as h builds them: an element has a type, attributes and          *)
(* children; false, null and undefined children are dropped; a component   *)
(* invocation is kept unexpanded until the render pass reaches it.         *)
(***************************************************************************)
Omitted ==
    [kind |-> "omit", type |-> "false", attrs |-> <<>>, children |-> <<>>]

Text(s) ==
    [kind |-> "text", type |-> "#text", attrs |-> <<<<"text", s>>>>, children |-> <<>>]

Clean(children) ==
    SelectSeq(children, LAMBDA c : c.kind # "omit")

h(type, attrs, children) ==
    [kind |-> "el", type |-> type, attrs |-> attrs, children |-> Clean(children)]

hComponent(fn, props, children) ==
    [kind |-> "comp", type |-> fn, attrs |-> props, children |-> Clean(children)]

hProvider(value, children) ==
    [kind |-> "provider", type |-> "Path", attrs |-> <<<<"value", value>>>>, children |-> Clean(children)]

\* The value of attribute name of a node, "" when it has none.
Attr(node, name) ==
    LET hits == SelectSeq(node.attrs, LAMBDA a : a[1] = name)
    IN  IF hits = <<>> THEN "" ELSE hits[1][2]

TextOf(node) ==
    Attr(node, "text")

(***************************************************************************)
(* Feed.                                                                   *)
(***************************************************************************)
MaxEntries == 3

MaxTime == 2

Permalinks == {"x", "y"}

Markdowns == {"text", "youtube"}

\* DateTime.toISO() of the instants the model uses.
ISOStrings ==
    <<"2023-01-01T00:00:00.000Z", "2023-06-15T00:00:00.000Z", "2023-07-24T19:02:27.000Z",
      "2024-02-29T12:00:00.000Z", "2025-01-01T00:00:00.000Z">>

toISO(t) ==
    ISOStrings[t + 1]

Undefined == "undefined"

\* Array.prototype.sort with the comparator (a, b) => a - b, on an array of
\* instants: ascending order.
RECURSIVE InsertAsc(_, _)
InsertAsc(x, s) ==
    IF s = <<>> THEN <<x>>
    ELSE IF x - Head(s) < 0 THEN <<x>> \o s
    ELSE <<Head(s)>> \o InsertAsc(x, Tail(s))

RECURSIVE SortAsc(_)
SortAsc(s) ==
    IF s = <<>> THEN <<>> ELSE InsertAsc(Last(s), SortAsc(Front(s)))

\* Array.prototype.pop: the last element, undefined of an empty array
\* (<<>> stands for undefined, <<x>> for the value x).
Pop(s) ==
    IF s = <<>> THEN <<>> ELSE <<Last(s)>>

\* The same sort applied to the entries array itself, by lastModified.
RECURSIVE InsertEntry(_, _)
InsertEntry(e, s) ==
    IF s = <<>> THEN <<e>>
    ELSE IF e.lastModified - Head(s).lastModified < 0 THEN <<e>> \o s
    ELSE <<Head(s)>> \o InsertEntry(e, Tail(s))

RECURSIVE SortEntries(_)
SortEntries(s) ==
    IF s = <<>> THEN <<>> ELSE InsertEntry(Last(s), SortEntries(Front(s)))

\* A plausible slip: the entries array sorted in place, its last entry taken.
LatestSortInPlace(es) ==
    [popped |-> IF es = <<>> THEN <<>> ELSE <<Last(SortEntries(es)).lastModified>>,
     entries |-> SortEntries(es)]

\* A plausible slip: shift() instead of pop(), the oldest instant.
LatestShift(es) ==
    [popped |-> IF es = <<>> THEN <<>>
                ELSE <<Head(SortAsc([i \in 1..Len(es) |-> es[i].lastModified]))>>,
     entries |-> es]

\* entries.map(e => e.lastModified).sort((a, b) => a - b).pop() (line 297):
\* map makes a new array, which sort orders in place; entries is not touched.
Latest(es) ==
    [popped |-> Pop(SortAsc([i \in 1..Len(es) |-> es[i].lastModified])),
     entries |-> es]

\* A plausible slip: pop()?.toISO(), undefined of an empty array instead of
\* a TypeError.
UpdatedOptional(popped) ==
    [ok |-> TRUE, text |-> IF popped = <<>> THEN "" ELSE toISO(popped[1])]

\* .toISO() on what pop gave: a TypeError on undefined.
Updated(popped) ==
    IF popped = <<>>
    THEN [ok |-> FALSE, text |-> "TypeError"]
    ELSE [ok |-> TRUE, text |-> toISO(popped[1])]

Author ==
    h("author", <<>>, <<h("name", <<>>, <<Text("Lee Byron")>>), h("uri", <<>>, <<Text("https://leebyron.com")>>)>>)

\* One entry element (lines 305-317).
FeedEntry(e) ==
    h("entry", <<>>, <<
        h("id", <<>>, <<Text("https://leebyron.com/til/" \o e.permalink \o "/")>>),
        h("link", <<<<"rel", "alternate">>, <<"type", "text/html">>,
                    <<"href", "https://leebyron.com/til/" \o e.permalink \o "/">>>>, <<>>),
        h("published", <<>>, <<Text(toISO(e.date))>>),
        h("updated", <<>>, <<Text(toISO(e.lastModified))>>),
        h("title", <<>>, <<Text(e.title)>>),
        Author,
        h("content", <<<<"type", "html">>,
                       <<"innerHTML", "<![CDATA[" \o "render(" \o e.markdown \o ")" \o "]]>">>>>, <<>>),
        h("rights", <<>>, <<Text("(c) Lee Byron, licensed under CC BY 4.0")>>)
    >>)

\* Feed({ entries }) (lines 291-321): the feed element, or the error thrown
\* while its children are evaluated.
Feed(es) ==
    LET latest == Latest(es)
        updated == Updated(latest.popped)
    IN  IF ~updated.ok
        THEN [ok |-> FALSE, error |-> updated.text, doc |-> Omitted]
        ELSE [ok |-> TRUE, error |-> "",
              doc |-> h("feed", <<<<"xmlns", "http://www.w3.org/2005/Atom">>, <<"xml:lang", "en-us">>>>,
                  <<h("id", <<>>, <<Text("https://leebyron.com/til/feed.xml")>>),
                    h("link", <<<<"rel", "self">>, <<"type", "application/atom+xml">>,
                                <<"href", "https://leebyron.com/til/feed.xml">>>>, <<>>),
                    h("link", <<<<"rel", "alternate">>, <<"type", "text/html">>,
                                <<"href", "https://leebyron.com/til/">>>>, <<>>),
                    h("updated", <<>>, <<Text(updated.text)>>),
                    h("title", <<>>, <<Text("Lee Byron / til")>>),
                    h("subtitle", <<>>, <<Text("Today I Learned: A bunch of brief blurbs on miscellaneous matter.")>>),
                    h("icon", <<>>, <<Text("https://leebyron.com/til/assets/favicon.png")>>),
                    Author,
                    h("rights", <<>>, <<Text("(c) 2022 Lee Byron, licensed under CC BY 4.0")>>),
                    h("generator", <<<<"uri", "https://github.com/leebyron/til">>>>, <<Text("til")>>)>>
                  \o [i \in 1..Len(latest.entries) |-> FeedEntry(latest.entries[i])])]

\* The entries Feed is given: permalink and lastModified vary, the rest is fixed.
EntryRecords ==
    [permalink : Permalinks, lastModified : 0..MaxTime, date : {0}, title : {"X"}, markdown : {"text"}]

RECURSIVE SeqsUpTo(_, _)
SeqsUpTo(S, n) ==
    IF n = 0 THEN {<<>>}
    ELSE LET shorter == SeqsUpTo(S, n - 1)
         IN  shorter \cup {Append(s, x) : s \in {t \in shorter : Len(t) = n - 1}, x \in S}

FeedInit ==
    /\ entries \in SeqsUpTo(EntryRecords, MaxEntries)
    /\ feedOut = [called |-> FALSE]

FeedIdle ==
    /\ entries = <<>>
    /\ feedOut = [called |-> FALSE]

\* The build calls Feed with the entries it read.
CallFeed ==
    /\ ~feedOut.called
    /\ feedOut' = [called |-> TRUE, given |-> entries, result |-> Feed(entries)]
    /\ entries' = Latest(entries).entries
    /\ UNCHANGED <<mainVars, renderVars>>

(***************************************************************************)
(* The Path context and path.relative.                                     *)
(***************************************************************************)
\* usePath(): the innermost bound value; Path has no default (line 238).
usePath(stack) ==
    IF stack = <<>> THEN Undefined ELSE Last(stack)

RECURSIVE JoinSlash(_)
JoinSlash(segs) ==
    IF segs = <<>> THEN ""
    ELSE IF Len(segs) = 1 THEN segs[1]
    ELSE segs[1] \o "/" \o JoinSlash(Tail(segs))

Assets == {"favicon.png", "style.css", "logo.svg"}

\* The segments of an absolute path, with or without a trailing slash.
PathSegments(p) ==
    CHOOSE segs \in {<<>>} \cup {<<q>> : q \in Permalinks \cup {"feed.xml"}} \cup {<<"assets", f>> : f \in Assets} :
        p \in {"/" \o JoinSlash(segs), "/" \o JoinSlash(segs) \o "/"}

RECURSIVE StripCommon(_, _)
StripCommon(a, b) ==
    IF a # <<>> /\ b # <<>> /\ Head(a) = Head(b)
    THEN StripCommon(Tail(a), Tail(b))
    ELSE <<a, b>>

\* path.relative(from, to) of two absolute paths.
relative(from, to) ==
    LET rest == StripCommon(PathSegments(from), PathSegments(to))
    IN  JoinSlash([i \in 1..Len(rest[1]) |-> ".."] \o rest[2])

\* One read of Path by a component.
ReadOf(by, path) ==
    [by |-> by, value |-> path, bound |-> path # Undefined]

(***************************************************************************)
(* The composers and components.                                           *)
(***************************************************************************)
HeadTypes == {"title", "meta", "link", "script"}

\* A plausible slip: a case label missing from the switch.
isHeadElementNoScript(element) ==
    element.kind = "el" /\ element.type \in {"title", "meta", "link"}

\* isHeadElement (lines 398-407): a switch on element.type, which is
\* undefined on a string or a number.
isHeadElement(element) ==
    element.kind = "el" /\ element.type \in {"title", "meta", "link", "script"}

\* OpenGraph (lines 409-414): one meta for each entry with a truthy content.
OpenGraph(data) ==
    [i \in 1..Len(data) |->
        IF data[i][2] = "" THEN Text("")
        ELSE h("meta", <<<<(IF data[i][3] THEN "name" ELSE "property"), data[i][1]>>,
                         <<"content", data[i][2]>>>>, <<>>)]

\* JSONLD (lines 416-422).
JSONLD(type, url) ==
    h("script", <<<<"type", "application/ld+json">>,
                  <<"innerHTML", "{@context:https://schema.org/,@type:" \o type \o ",url:" \o url \o "}">>>>, <<>>)

\* GTag (lines 424-434).
GTag ==
    <<h("script", <<<<"async", "true">>, <<"src", "https://www.googletagmanager.com/gtag/js?id=UA-61714711-1">>>>, <<>>),
      h("script", <<<<"innerHTML", "gtag('config', 'UA-61714711-1');">>>>, <<>>)>>

\* YouTube (lines 515-527).
YouTube(v, aspectRatio) ==
    <<h("div", <<<<"class", "yt-player">>, <<"style", "--aspectRatio:" \o aspectRatio>>>>,
        <<h("iframe", <<<<"src", "https://www.youtube.com/embed/" \o v>>,
                        <<"title", "YouTube video player">>>>, <<>>)>>)>>

\* The compiled body of an entry: mdjsx(markdown, { components }), also what
\* the Content component expands to. A tag outside components fails to compile.
Compiled(markdown) ==
    CASE markdown = "text" ->
            [ok |-> TRUE, nodes |-> <<h("p", <<>>, <<Text("Hello")>>)>>]
      [] markdown = "youtube" ->
            [ok |-> TRUE, nodes |-> <<h("p", <<>>, <<Text("Hello")>>),
                hComponent("YouTube", <<<<"v", "abc">>, <<"aspectRatio", "16/9">>>>, <<>>)>>]
      [] OTHER ->
            [ok |-> FALSE, nodes |-> <<>>]

\* Attribution (lines 436-470).
Attribution(filename, permalink, date) ==
    <<Text("This "),
      h("a", <<<<"property", "dct:title">>, <<"rel", "cc:attributionURL">>,
               <<"href", "https://leebyron.com/til/" \o permalink \o "/">>>>, <<Text("til")>>),
      Text(" was created "),
      h("span", <<<<"property", "dct:created">>, <<"content", date>>>>, <<Text(date)>>),
      Text(" - "),
      h("a", <<<<"href", "https://raw.githubusercontent.com/leebyron/til/main/entries/" \o filename>>,
               <<"target", "__blank">>>>, <<Text("raw")>>),
      Text(" - "),
      h("a", <<<<"href", "https://github.com/leebyron/til/edit/main/entries/" \o filename \o "#L8">>,
               <<"target", "__blank">>>>, <<Text("edit")>>)>>

\* License (lines 472-508): reads Path once, for the feed link.
License(year, children, path) ==
    IF path = Undefined
    THEN [ok |-> FALSE, reads |-> <<ReadOf("License", path)>>, nodes |-> <<>>]
    ELSE [ok |-> TRUE, reads |-> <<ReadOf("License", path)>>,
          nodes |-> <<h("div", <<<<"class", "license">>>>,
              children
              \o (IF children = <<>> THEN <<>> ELSE <<h("br", <<>>, <<>>)>>)
              \o <<Text("(c) "),
                   h("span", <<<<"rel", "dct:dateCopyrighted">>>>, <<Text(year)>>),
                   Text(" "),
                   h("a", <<<<"rel", "cc:attributionURL dct:creator">>, <<"href", "https://leebyron.com">>>>,
                       <<Text("Lee Byron")>>),
                   Text(" - "),
                   Text("licensed under "),
                   h("a", <<<<"href", "http://creativecommons.org/licenses/by/4.0/">>, <<"target", "_blank">>>>,
                       <<Text("CC BY 4.0"),
                         h("img", <<<<"src", "https://mirrors.creativecommons.org/presskit/icons/cc.svg">>>>, <<>>),
                         h("img", <<<<"src", "https://mirrors.creativecommons.org/presskit/icons/by.svg">>>>, <<>>)>>),
                   Text(" - "),
                   h("a", <<<<"href", relative(path, "/feed.xml")>>, <<"rel", "alternate feed">>,
                            <<"type", "application/atom+xml">>>>, <<Text("feed")>>)>>)>>]

\* Document (lines 373-396): reads Path five times, the first in a template
\* string, the others through path.relative, which throws on undefined.
Document(children, path) ==
    IF path = Undefined
    THEN [ok |-> FALSE, reads |-> <<ReadOf("Document", path), ReadOf("Document", path)>>, nodes |-> <<>>]
    ELSE [ok |-> TRUE, reads |-> [i \in 1..5 |-> ReadOf("Document", path)],
          nodes |-> <<h("html", <<>>, <<
              h("head", <<>>,
                  <<h("meta", <<<<"charset", "UTF-8">>>>, <<>>)>>
                  \o SelectSeq(children, isHeadElement)
                  \o <<h("meta", <<<<"name", "viewport">>, <<"content", "width=device-width, initial-scale=1">>>>, <<>>),
                       h("link", <<<<"rel", "canonical">>, <<"href", "https://leebyron.com/til" \o path>>>>, <<>>),
                       h("link", <<<<"rel", "shortcut icon">>, <<"href", relative(path, "/assets/favicon.png")>>>>, <<>>),
                       h("link", <<<<"rel", "stylesheet">>, <<"href", relative(path, "/assets/style.css")>>>>, <<>>),
                       h("link", <<<<"rel", "alternate">>, <<"type", "application/atom+xml">>,
                                   <<"title", "Reader Feed">>, <<"href", relative(path, "/feed.xml")>>>>, <<>>),
                       hComponent("GTag", <<>>, <<>>)>>),
              h("body", <<>>,
                  <<h("header", <<>>, <<
                      h("a", <<<<"href", "https://leebyron.com">>>>, <<
                          h("img", <<<<"src", relative(path, "/assets/logo.svg")>>, <<"alt", "Lee Byron">>>>, <<>>)>>)>>)>>
                  \o SelectSeq(children, LAMBDA child : ~isHeadElement(child)))>>)>>]

\* -h(...): the unary minus of line 328 turns the element into the number NaN.
Negate(node) ==
    [kind |-> "number", type |-> "NaN", attrs |-> <<<<"text", "NaN">>>>, children |-> <<>>]

Published == {"true", "false", "absent"}

\* frontmatter.published === false && -h('meta', ...) (lines 327-328).
NoIndex(published) ==
    IF published = "false"
    THEN Negate(h("meta", <<<<"name", "robots">>, <<"content", "noindex">>>>, <<>>))
    ELSE Omitted

\* A plausible slip: the path bound without its trailing slash.
PagePathNoSlash(frontmatter) ==
    "/" \o frontmatter.permalink

\* The value Page binds to Path (line 325).
PagePath(frontmatter) ==
    "/" \o frontmatter.permalink \o "/"

\* Page (lines 323-371).
Page(props) ==
    LET fm == props.frontmatter
        url == "https://leebyron.com/til/" \o fm.permalink \o "/"
    IN  <<hProvider(PagePath(fm), <<
            hComponent("Document", <<>>,
                <<NoIndex(fm.published),
                  h("title", <<>>, <<Text("til / " \o fm.title \o " - Lee Byron")>>)>>
                \o OpenGraph(<<
                    <<"og:url", url, FALSE>>,
                    <<"og:title", "til / " \o fm.title \o " - Lee Byron", FALSE>>,
                    <<"og:description", "Hello", FALSE>>,
                    <<"og:type", "article", FALSE>>,
                    <<"article:author:first_name", "Lee", FALSE>>,
                    <<"article:author:last_name", "Byron", FALSE>>,
                    <<"article:published_time", fm.date, FALSE>>,
                    <<"article:modified_time", props.lastModified, FALSE>>,
                    <<"twitter:card", "summary", TRUE>>,
                    <<"twitter:creator", "@leeb", TRUE>>>>)
                \o <<JSONLD("LearningResource", url),
                     h("article", <<>>, <<
                         h("h1", <<>>, <<h("a", <<<<"href", "../">>>>, <<Text("til")>>),
                                         h("span", <<>>, <<Text(fm.title)>>)>>),
                         hComponent("Content", <<<<"markdown", props.markdown>>>>, <<>>)>>),
                     h("footer", <<>>, <<
                         hComponent("License", <<<<"year", "2023">>>>, <<
                             hComponent("Attribution", <<<<"filename", props.filename>>,
                                 <<"permalink", fm.permalink>>, <<"date", fm.date>>>>, <<>>)>>)>>)>>)>>)>>

\* One row of the entry log of Index (lines 271-281).
EntryLog(frontmatter) ==
    h("div", <<<<"class", "entrylog">>>>, <<
        h("a", <<<<"href", frontmatter.permalink \o "/">>>>, <<Text(frontmatter.title)>>),
        h("pre", <<<<"class", "timestamp">>>>, <<
            h("span", <<<<"class", "p2">>>>, <<Text("ccc " \o frontmatter.date)>>),
            h("span", <<<<"class", "p0">>>>, <<Text("dd LLL yyyy " \o frontmatter.date)>>),
            h("span", <<<<"class", "p1">>>>, <<Text("HH:mm " \o frontmatter.date)>>),
            h("span", <<<<"class", "p3">>>>, <<Text(":ss ZZ " \o frontmatter.date)>>)>>)>>)

IndexChildren(props) ==
    <<h("title", <<>>, <<Text("Today I Learned / Lee Byron")>>)>>
    \o OpenGraph(<<
        <<"og:url", "https://leebyron.com/til/", FALSE>>,
        <<"og:title", "Lee Byron / til", FALSE>>,
        <<"og:description", "Today I Learned: A bunch of brief blurbs on miscellaneous matter.", FALSE>>,
        <<"twitter:card", "summary", TRUE>>,
        <<"twitter:title", "Lee Byron / til: A bunch of brief blurbs on miscellaneous matter.", TRUE>>,
        <<"twitter:creator", "@leeb", TRUE>>>>)
    \o <<JSONLD("Collection", "https://leebyron.com/til/"),
         h("section", <<>>,
             <<hComponent("Content", <<<<"markdown", props.markdown>>>>, <<>>),
               h("h2", <<<<"id", "entry-log">>>>, <<
                   h("a", <<<<"href", "#entry-log">>, <<"data-anchor", "true">>>>, <<Text("entry log")>>)>>)>>
             \o [i \in 1..Len(props.frontmatters) |-> EntryLog(props.frontmatters[i])]),
         h("footer", <<>>, <<hComponent("License", <<<<"year", "2022">>>>, <<>>)>>)>>

\* A plausible slip: Document returned without the Path provider around it.
IndexUnbound(props) ==
    <<hComponent("Document", <<>>, IndexChildren(props))>>

\* Index (lines 242-289).
Index(props) ==
    <<hProvider("/", <<hComponent("Document", <<>>, IndexChildren(props))>>)>>

\* What a component invocation expands to, given the value usePath() has at
\* that moment: the nodes it returns and the reads of Path it made, or the
\* failure it ends in.
Call(node, path) ==
    CASE node.type = "Document" -> Document(node.children, path)
      [] node.type = "License" -> License(Attr(node, "year"), node.children, path)
      [] node.type = "Attribution" ->
            [ok |-> TRUE, reads |-> <<>>,
             nodes |-> Attribution(Attr(node, "filename"), Attr(node, "permalink"), Attr(node, "date"))]
      [] node.type = "GTag" -> [ok |-> TRUE, reads |-> <<>>, nodes |-> GTag]
      [] node.type = "YouTube" ->
            [ok |-> TRUE, reads |-> <<>>, nodes |-> YouTube(Attr(node, "v"), Attr(node, "aspectRatio"))]
      [] node.type = "Content" ->
            [ok |-> Compiled(Attr(node, "markdown")).ok, reads |-> <<>>,
             nodes |-> Compiled(Attr(node, "markdown")).nodes]

(***************************************************************************)
(* The render pass: a depth-first expansion of the tree, one node a step,  *)
(* with the stack of values bound to Path.                                 *)
(***************************************************************************)
VoidTypes == {"meta", "link", "img", "br"}

CloseMark(type) ==
    [kind |-> "close", type |-> type, attrs |-> <<>>, children |-> <<>>]

UnbindMark ==
    [kind |-> "unbind", type |-> "Path", attrs |-> <<>>, children |-> <<>>]

Token(tok, node) ==
    [tok |-> tok, type |-> node.type, attrs |-> node.attrs]

\* A plausible slip: the binding left in place when the subtree is done.
PopBindingLeak(stack) ==
    stack

\* The provider unbinds when its subtree is done.
PopBinding(stack) ==
    Front(stack)

\* A failure leaves through every provider that is open: each one unbinds.
Unwind(stack, wk) ==
    SubSeq(stack, 1, Len(stack) - Len(SelectSeq(wk, LAMBDA w : w.kind = "unbind")))

ExpandElement ==
    /\ rstatus = "running"
    /\ work # <<>>
    /\ Head(work).kind = "el"
    /\ out' = Append(out, Token("open", Head(work)))
    /\ work' = Head(work).children
               \o (IF Head(work).type \in VoidTypes THEN <<>> ELSE <<CloseMark(Head(work).type)>>)
               \o Tail(work)
    /\ UNCHANGED <<rootKind, input, bindings, reads, rstatus>>
    /\ UNCHANGED <<mainVars, feedVars>>

CloseElement ==
    /\ rstatus = "running"
    /\ work # <<>>
    /\ Head(work).kind = "close"
    /\ out' = Append(out, Token("close", Head(work)))
    /\ work' = Tail(work)
    /\ UNCHANGED <<rootKind, input, bindings, reads, rstatus>>
    /\ UNCHANGED <<mainVars, feedVars>>

\* Strings and numbers are emitted as text.
EmitText ==
    /\ rstatus = "running"
    /\ work # <<>>
    /\ Head(work).kind \in {"text", "number"}
    /\ out' = Append(out, Token("text", Head(work)))
    /\ work' = Tail(work)
    /\ UNCHANGED <<rootKind, input, bindings, reads, rstatus>>
    /\ UNCHANGED <<mainVars, feedVars>>

EnterProvider ==
    /\ rstatus = "running"
    /\ work # <<>>
    /\ Head(work).kind = "provider"
    /\ bindings' = Append(bindings, Attr(Head(work), "value"))
    /\ work' = Head(work).children \o <<UnbindMark>> \o Tail(work)
    /\ UNCHANGED <<rootKind, input, reads, out, rstatus>>
    /\ UNCHANGED <<mainVars, feedVars>>

ExitProvider ==
    /\ rstatus = "running"
    /\ work # <<>>
    /\ Head(work).kind = "unbind"
    /\ bindings' = PopBinding(bindings)
    /\ work' = Tail(work)
    /\ UNCHANGED <<rootKind, input, reads, out, rstatus>>
    /\ UNCHANGED <<mainVars, feedVars>>

ExpandComponent ==
    /\ rstatus = "running"
    /\ work # <<>>
    /\ Head(work).kind = "comp"
    /\ LET r == Call(Head(work), usePath(bindings))
       IN  /\ reads' = reads \o r.reads
           /\ IF r.ok
              THEN /\ work' = r.nodes \o Tail(work)
                   /\ UNCHANGED <<bindings, rstatus>>
              ELSE /\ work' = <<>>
                   /\ bindings' = Unwind(bindings, work)
                   /\ rstatus' = "failed"
    /\ UNCHANGED <<rootKind, input, out>>
    /\ UNCHANGED <<mainVars, feedVars>>

FinishRender ==
    /\ rstatus = "running"
    /\ work = <<>>
    /\ rstatus' = "done"
    /\ UNCHANGED <<rootKind, input, work, bindings, reads, out>>
    /\ UNCHANGED <<mainVars, feedVars>>

(***************************************************************************)
(* The trees a render pass is given.                                       *)
(***************************************************************************)
MaxFrontmatters == 2

MaxChildren == 3

Frontmatters ==
    [permalink : Permalinks, title : {"X"}, published : Published, date : {toISO(0)}]

PageProps ==
    {[frontmatter |-> fm, lastModified |-> toISO(1), markdown |-> md, filename |-> fm.permalink \o ".md"] :
        fm \in Frontmatters, md \in Markdowns \cup {"unknown"}}

IndexProps ==
    [frontmatters : SeqsUpTo([permalink : Permalinks, title : {"X"}, published : {"absent"}, date : {toISO(0)}],
                             MaxFrontmatters),
     markdown : Markdowns \cup {"unknown"}]

\* Document given any children: the types isHeadElement tells apart, another
\* element type and a string, each child carrying its place in the input.
ChildTypes == HeadTypes \cup {"section", "#text"}

ChildId(i) ==
    "c" \o ToString(i)

Child(i, type) ==
    IF type = "#text" THEN Text(ChildId(i))
    ELSE h(type, <<<<"id", ChildId(i)>>>>, <<>>)

DocumentProps ==
    [types : SeqsUpTo(ChildTypes, MaxChildren), path : {"/", "/x/"}]

DocumentTree(props) ==
    <<hProvider(props.path, <<
        hComponent("Document", <<>>, [i \in 1..Len(props.types) |-> Child(i, props.types[i])])>>)>>

\* Providers nested and followed by siblings, each place holding a consumer
\* of Path (License), a Content that compiles, one that fails, or nothing.
Places == {"none", "License", "Content", "ContentFails"}

Place(what) ==
    CASE what = "License" -> <<hComponent("License", <<<<"year", "2022">>>>, <<>>)>>
      [] what = "Content" -> <<hComponent("Content", <<<<"markdown", "text">>>>, <<>>)>>
      [] what = "ContentFails" -> <<hComponent("Content", <<<<"markdown", "unknown">>>>, <<>>)>>
      [] OTHER -> <<>>

ContextProps ==
    [outer : {"/", "/x/"}, inner : {"/x/", "/y/"},
     first : Places, inside : Places, after : Places, outside : Places]

ContextTree(props) ==
    <<hProvider(props.outer,
        Place(props.first)
        \o <<hProvider(props.inner, Place(props.inside))>>
        \o Place(props.after))>>
    \o Place(props.outside)

RootKinds == {"Index", "Page", "FeedContent", "Document", "Context"}

PropsOf(kind) ==
    CASE kind = "Index" -> IndexProps
      [] kind = "Page" -> PageProps
      [] kind = "FeedContent" -> [markdown : Markdowns \cup {"unknown"}]
      [] kind = "Document" -> DocumentProps
      [] kind = "Context" -> ContextProps

\* The tree handed to render, or the failure of building it.
Compose(kind, props) ==
    CASE kind = "Index" -> [ok |-> TRUE, nodes |-> Index(props)]
      [] kind = "Page" -> [ok |-> TRUE, nodes |-> Page(props)]
      [] kind = "FeedContent" -> Compiled(props.markdown)
      [] kind = "Document" -> [ok |-> TRUE, nodes |-> DocumentTree(props)]
      [] kind = "Context" -> [ok |-> TRUE, nodes |-> ContextTree(props)]

Root ==
    Compose(rootKind, input).nodes

RenderInit ==
    /\ rootKind \in RootKinds
    /\ input \in PropsOf(rootKind)
    /\ work = Compose(rootKind, input).nodes
    /\ bindings = <<>>
    /\ reads = <<>>
    /\ out = <<>>
    /\ rstatus = IF Compose(rootKind, input).ok THEN "running" ELSE "failed"

RenderIdle ==
    /\ rootKind = "none"
    /\ input = <<>>
    /\ work = <<>>
    /\ bindings = <<>>
    /\ reads = <<>>
    /\ out = <<>>
    /\ rstatus = "idle"

RenderNext ==
    \/ ExpandElement
    \/ CloseElement
    \/ EmitText
    \/ EnterProvider
    \/ ExitProvider
    \/ ExpandComponent
    \/ FinishRender

(***************************************************************************)
(* The specifications: one run of main, one call of Feed, one render pass. *)
(***************************************************************************)
InitMain ==
    MainInit /\ FeedIdle /\ RenderIdle

SpecMain ==
    InitMain /\ [][MainNext]_vars

InitFeed ==
    MainIdle /\ FeedInit /\ RenderIdle

SpecFeed ==
    InitFeed /\ [][CallFeed]_vars

InitRender ==
    MainIdle /\ FeedIdle /\ RenderInit

SpecRender ==
    InitRender /\ [][RenderNext]_vars

(***************************************************************************)
(* Properties of the authoring command.                                    *)
(***************************************************************************)
GitOps == {"git add", "git commit", "git push"}

\* main (v2) has taken the branch that creates a new entry.
OnNewEntryPath ==
    /\ version = "v2"
    /\ ~isExisting
    /\ \/ pc \in {"mktemp", "writeTmp", "editNew", "unlink", "recheck"}
       \/ \E i \in 1..Len(ops) : ops[i] \in {"mktemp", "mktemp failed"}

\* The editor session of the new entry is over, and it exited non-zero or
\* left no entry file.
EditorGaveUp ==
    /\ OnNewEntryPath
    /\ \/ "editor nonzero" \in Range(ops)
       \/ "editor" \in Range(ops) /\ entryFile = "absent"

\* C8 as stated: on the new-entry path of main the template goes to the temp
\* file only, never to the entry path; when the editor session ends with no
\* entry file or a non-zero exit, main fails, no git add, commit or push is
\* run, and the repository (its work tree included) is as it was.
C8_RepositoryUnchanged ==
    /\ version = "v2" => entryFile # "template"
    /\ EditorGaveUp =>
        /\ pc \in {"unlink", "recheck", "rejected"}
        /\ Range(ops) \cap GitOps = {}
        /\ Repo = repo0

\* C8, amended: the same, but only the git state (index, history, remote) is
\* sure to be as it was; the work tree is as it was when the user quit
\* without saving, and holds the saved entry when the editor saved it and
\* then exited non-zero.
C8_NoPublishAfterAbort ==
    /\ version = "v2" => entryFile # "template"
    /\ version = "v2" /\ tmpFile = "template" => OnNewEntryPath
    /\ EditorGaveUp =>
        /\ pc \in {"unlink", "recheck", "rejected"}
        /\ Range(ops) \cap GitOps = {}
        /\ git = repo0.git
        /\ \/ entryFile = repo0.entryFile
           \/ entryFile = "saved" /\ "editor nonzero" \in Range(ops)

\* The user quit the editor without saving the new entry and main has failed.
C8_Witness ==
    /\ EditorGaveUp
    /\ pc = "rejected"
    /\ "editor" \in Range(ops)
    /\ entryFile = "absent"
    /\ "write tmp" \in Range(ops)

LeftNewEntryBranch ==
    /\ version = "v2"
    /\ "mktemp" \in Range(ops)
    /\ pc \in {"recheck", "publish", "resolved", "rejected"}

\* C11 as stated: once mktemp has created the temp file, it is deleted on
\* every path out of the new-entry branch (after a normal edit, after a
\* failed write of the template, after a failed or non-zero editor); no run
\* of main ends with the temp file still there.
C11_TmpFileDeleted ==
    /\ LeftNewEntryBranch => tmpFile = "deleted"
    /\ pc \in {"resolved", "rejected", "exit1"} => tmpFile \in {"none", "deleted"}

\* C11, amended: on every path out of the new-entry branch fs.unlink has
\* been called on the temp file, once; the file is gone whenever that call
\* succeeded; when unlink itself fails main fails, with the file left and
\* nothing published.
C11_TmpFileUnlinked ==
    /\ LeftNewEntryBranch =>
        /\ Len(SelectSeq(ops, LAMBDA op : op \in {"unlink", "unlink failed"})) = 1
        /\ (tmpFile = "deleted") = ("unlink" \in Range(ops))
        /\ "unlink failed" \in Range(ops) =>
              pc = "rejected" /\ Range(ops) \cap GitOps = {}
    /\ pc \in {"resolved", "rejected", "exit1"} /\ "unlink failed" \notin Range(ops) =>
          tmpFile \in {"none", "deleted"}
    /\ tmpFile \in {"empty", "template"} /\ "unlink failed" \notin Range(ops) =>
          pc \in {"writeTmp", "editNew", "unlink"}

\* The editor of a new entry exited non-zero, and main has failed with the
\* temp file deleted.
C11_Witness ==
    /\ LeftNewEntryBranch
    /\ pc = "rejected"
    /\ "editor nonzero" \in Range(ops)
    /\ tmpFile = "deleted"

(***************************************************************************)
(* Properties of Feed.                                                     *)
(***************************************************************************)
ChildrenOfType(node, type) ==
    SelectSeq(node.children, LAMBDA c : c.kind = "el" /\ c.type = type)

\* The text inside the first child of the given type.
ChildText(node, type) ==
    TextOf(ChildrenOfType(node, type)[1].children[1])

MaxOf(S) ==
    CHOOSE m \in S : \A x \in S : x <= m

\* C3: with at least one entry, in any order, the feed-level updated element
\* is the greatest lastModified of the entries, and the entries array and
\* the entry elements are in the order the entries were given.
C3_UpdatedIsLatest ==
    feedOut.called /\ feedOut.given # <<>> =>
        /\ feedOut.result.ok
        /\ ChildText(feedOut.result.doc, "updated")
               = toISO(MaxOf({feedOut.given[i].lastModified : i \in 1..Len(feedOut.given)}))
        /\ entries = feedOut.given
        /\ LET els == ChildrenOfType(feedOut.result.doc, "entry")
           IN  /\ Len(els) = Len(feedOut.given)
               /\ \A i \in 1..Len(els) :
                    /\ ChildText(els[i], "id") = "https://leebyron.com/til/" \o feedOut.given[i].permalink \o "/"
                    /\ ChildText(els[i], "updated") = toISO(feedOut.given[i].lastModified)

\* Feed was given the latest entry first and an older one after it.
C3_Witness ==
    /\ feedOut.called
    /\ Len(feedOut.given) >= 2
    /\ feedOut.given[1].lastModified > feedOut.given[2].lastModified
    /\ feedOut.given[1].permalink # feedOut.given[2].permalink
    /\ feedOut.result.ok

\* C6: two entries with the same permalink end in a DuplicatePermalink
\* error; no feed is produced that holds two entries with one permalink.
C6_DuplicatePermalinkRejected ==
    feedOut.called =>
        \/ ~feedOut.result.ok
        \/ \A i, j \in 1..Len(feedOut.given) :
             feedOut.given[i].permalink = feedOut.given[j].permalink => i = j

\* C7: Feed with no entries ends in an error; every feed document it
\* returns has a feed-level updated element with a timestamp in it.
C7_EmptyFeedFails ==
    feedOut.called =>
        /\ feedOut.given = <<>> => ~feedOut.result.ok /\ feedOut.result.doc = Omitted
        /\ feedOut.result.ok =>
            /\ Len(ChildrenOfType(feedOut.result.doc, "updated")) = 1
            /\ ChildText(feedOut.result.doc, "updated") \in Range(ISOStrings)

\* Feed was called with an empty entries array and threw.
C7_Witness ==
    /\ feedOut.called
    /\ feedOut.given = <<>>
    /\ ~feedOut.result.ok
    /\ feedOut.result.error = "TypeError"

(***************************************************************************)
(* Properties of the render pass and the page composers.                   *)
(***************************************************************************)
IsPrefix(s, t) ==
    Len(s) <= Len(t) /\ SubSeq(t, 1, Len(s)) = s

\* The places in out of the tokens of one kind and type.
Places_(tok, type) ==
    {i \in 1..Len(out) : out[i].tok = tok /\ out[i].type = type}

\* The tokens emitted strictly inside the (one) element of the given type,
\* once it is closed.
Region(type) ==
    IF Places_("open", type) = {} \/ Places_("close", type) = {} THEN <<>>
    ELSE SubSeq(out, (CHOOSE i \in Places_("open", type) : TRUE) + 1,
                     (CHOOSE i \in Places_("close", type) : TRUE) - 1)

\* The input place a token comes from, "" when it is no child of the input.
TokenId(token) ==
    IF token.tok = "open" THEN Attr(token, "id")
    ELSE IF token.tok = "text" /\ Attr(token, "text") \in {ChildId(i) : i \in 1..MaxChildren}
         THEN Attr(token, "text")
    ELSE ""

IdsIn(tokens) ==
    LET marked == SelectSeq(tokens, LAMBDA t : TokenId(t) # "")
    IN  [i \in 1..Len(marked) |-> TokenId(marked[i])]

\* The ids of the input places whose type is (inHead) or is not one of
\* title, meta, link, script, in input order.
RECURSIVE IdsOfTypes(_, _, _)
IdsOfTypes(types, i, inHead) ==
    IF i > Len(types) THEN <<>>
    ELSE (IF (types[i] \in {"title", "meta", "link", "script"}) = inHead THEN <<ChildId(i)>> ELSE <<>>)
         \o IdsOfTypes(types, i + 1, inHead)

\* C1: whatever children Document is given, those of type title, meta,
\* link or script are emitted inside head, all the others inside body, each
\* group in its input order.
C1_HeadBodyPartition ==
    rootKind = "Document" /\ rstatus = "done" =>
        /\ IdsIn(Region("head")) = IdsOfTypes(input.types, 1, TRUE)
        /\ IdsIn(Region("body")) = IdsOfTypes(input.types, 1, FALSE)
        /\ Len(IdsIn(out)) = Len(input.types)

\* Document has rendered children given as a body element, a head element,
\* and a head element again.
C1_Witness ==
    /\ rootKind = "Document"
    /\ rstatus = "done"
    /\ input.types = <<"section", "script", "title">>
    /\ IdsIn(Region("head")) = <<"c2", "c3">>

IsRobotsNoIndex(token) ==
    /\ token.tok = "open"
    /\ token.type = "meta"
    /\ Attr(token, "name") = "robots"
    /\ Attr(token, "content") = "noindex"

\* C2: Page emits a meta robots noindex element inside head when
\* frontmatter.published is false, and none when it is true or absent.
C2_NoIndexWhenUnpublished ==
    rootKind = "Page" /\ rstatus = "done" =>
        /\ input.frontmatter.published = "false" =>
              \E i \in 1..Len(Region("head")) : IsRobotsNoIndex(Region("head")[i])
        /\ input.frontmatter.published # "false" =>
              \A i \in 1..Len(out) : ~IsRobotsNoIndex(out[i])

\* The reads of Path a tree makes when every consumer is handed the value of
\* the innermost provider around it in the tree (the default outside any):
\* the scoping the context is meant to have, with no stack.
RECURSIVE LexicalReads(_, _)
LexicalReads(nodes, env) ==
    IF nodes = <<>> THEN [ok |-> TRUE, reads |-> <<>>]
    ELSE LET node == Head(nodes)
             first ==
                 CASE node.kind = "provider" -> LexicalReads(node.children, Attr(node, "value"))
                   [] node.kind = "el" -> LexicalReads(node.children, env)
                   [] node.kind = "comp" ->
                        LET r == Call(node, env)
                        IN  IF ~r.ok THEN [ok |-> FALSE, reads |-> r.reads]
                            ELSE LET inner == LexicalReads(r.nodes, env)
                                 IN  [ok |-> inner.ok, reads |-> r.reads \o inner.reads]
                   [] OTHER -> [ok |-> TRUE, reads |-> <<>>]
         IN  IF ~first.ok THEN first
             ELSE LET rest == LexicalReads(Tail(nodes), env)
                  IN  [ok |-> rest.ok, reads |-> first.reads \o rest.reads]

\* C4: in a render pass every read of Path gives the value of the innermost
\* provider around the reader, the default outside any; a provider whose
\* subtree is done, or has failed, has its binding removed, so that a later
\* sibling reads the outer value or the default.
C4_ScopedBinding ==
    /\ IsPrefix(reads, LexicalReads(Root, Undefined).reads)
    /\ rstatus = "running" =>
          Len(bindings) = Len(SelectSeq(work, LAMBDA w : w.kind = "unbind"))
    /\ rstatus \in {"done", "failed"} =>
          /\ bindings = <<>>
          /\ reads = LexicalReads(Root, Undefined).reads
          /\ (rstatus = "done") = (Compose(rootKind, input).ok /\ LexicalReads(Root, Undefined).ok)

\* A consumer inside the inner provider has read the inner value, and its
\* sibling after that provider the outer one.
C4_Witness ==
    /\ rootKind = "Context"
    /\ rstatus = "running"
    /\ input.inside = "License"
    /\ input.after = "License"
    /\ input.inner # input.outer
    /\ Len(reads) = 2
    /\ reads[1].value = input.inner
    /\ reads[2].value = input.outer

IsCanonical(token) ==
    token.tok = "open" /\ token.type = "link" /\ Attr(token, "rel") = "canonical"

\* C5: the canonical link in head is https://leebyron.com/til followed by
\* the path the composer bound: /p/ for Page with permalink p, / for Index.
C5_CanonicalLink ==
    rootKind \in {"Page", "Index"} =>
        LET bound == IF rootKind = "Page" THEN "/" \o input.frontmatter.permalink \o "/" ELSE "/"
        IN  /\ \A i \in 1..Len(out) :
                 IsCanonical(out[i]) => Attr(out[i], "href") = "https://leebyron.com/til" \o bound
            /\ \A i \in 1..Len(reads) : reads[i].value = bound
            /\ rstatus = "done" =>
                 /\ Cardinality({i \in 1..Len(out) : IsCanonical(out[i])}) = 1
                 /\ \E i \in 1..Len(Region("head")) : IsCanonical(Region("head")[i])

\* A Page with permalink x is rendered, its canonical link emitted.
C5_Witness ==
    /\ rootKind = "Page"
    /\ rstatus = "done"
    /\ input.frontmatter.permalink = "x"
    /\ \E i \in 1..Len(out) :
         IsCanonical(out[i]) /\ Attr(out[i], "href") = "https://leebyron.com/til/x/"

\* C10: in Index and Page every read of Path is made under a bound provider,
\* so none of them fails for an unbound Path; rendering the content of a
\* feed entry reads Path not at all.
C10_PathAlwaysBound ==
    rootKind \in {"Index", "Page", "FeedContent"} =>
        /\ \A i \in 1..Len(reads) : reads[i].bound
        /\ rootKind = "FeedContent" => reads = <<>>
        /\ rstatus = "failed" => input.markdown = "unknown"

\* Index is rendered: Document made its five reads and License its one.
C10_Witness ==
    /\ rootKind = "Index"
    /\ rstatus = "done"
    /\ Len(reads) = 6
    /\ reads[6].by = "License"

====
